---- MODULE Spec2Model ----
(***************************************************************************)
(* Model of the Task3_Automation scripts: the email extraction pipeline    *)
(* (extract_emails.py), the image mover (move_jpg_files.py) and the title  *)
(* scraper (scrape_webpage_title.py).  Text is a sequence of one-character *)
(* strings; a path is the character sequence of its str() form.            *)
(***************************************************************************)
EXTENDS Integers, Sequences, FiniteSets, TLC

(***************************************************************************)
(* Characters and the character classes of the two regular expressions.    *)
(***************************************************************************)
UpperSeq == <<"A","B","C","D","E","F","G","H","I","J","K","L","M",
              "N","O","P","Q","R","S","T","U","V","W","X","Y","Z">>

LowerSeq == <<"a","b","c","d","e","f","g","h","i","j","k","l","m",
              "n","o","p","q","r","s","t","u","v","w","x","y","z">>

DigitSeq == <<"0","1","2","3","4","5","6","7","8","9">>

Upper == {UpperSeq[i] : i \in 1..26}

Lowercase == {LowerSeq[i] : i \in 1..26}

Digits == {DigitSeq[i] : i \in 1..10}

\* [A-Za-z0-9._%+-]  (extract_emails.py:40 and :102, local part)
LocalClass == Upper \cup Lowercase \cup Digits \cup {".", "_", "%", "+", "-"}

\* [A-Za-z0-9.-]     (extract_emails.py:40 and :102, domain)
DomainClass == Upper \cup Lowercase \cup Digits \cup {".", "-"}

\* [A-Z|a-z]         (extract_emails.py:40, discovery top-level label)
DiscoveryTldClass == Upper \cup Lowercase \cup {"|"}

\* [a-zA-Z]          (extract_emails.py:102, strict top-level label)
StrictTldClass == Upper \cup Lowercase

\* \w of a str pattern: ASCII letters, digits, underscore, and the letters
\* of other scripts (one representative).
WordClass == Upper \cup Lowercase \cup Digits \cup {"_", "é"}

\* str.lower() on one character
LowerChar(c) ==
  IF c \in Upper THEN LowerSeq[CHOOSE i \in 1..26 : UpperSeq[i] = c] ELSE c

\* str.lower()
Lower(s) == [i \in 1..Len(s) |-> LowerChar(s[i])]

Max(S) == CHOOSE x \in S : \A y \in S : y <= x

Min(S) == CHOOSE x \in S : \A y \in S : x <= y

(***************************************************************************)
(* Discovery: re.findall(email_pattern, content)                           *)
(***************************************************************************)
IsWordAt(text, i) == i >= 1 /\ i <= Len(text) /\ text[i] \in WordClass

\* \b holds between index p-1 and index p
WordBoundary(text, p) == IsWordAt(text, p - 1) # IsWordAt(text, p)

\* The last index of the longest run of characters of class that starts at
\* i (i - 1 when the run is empty): what a greedy "+" or "{2,}" consumes.
RunEnd(text, i, class) ==
  Min({j \in i..(Len(text) + 1) : j = Len(text) + 1 \/ text[j] \notin class}) - 1

\* The ends <<d, e>> the pattern can take when it starts at s: the local part
\* is s..a-1, "@" is at a, the domain is a+1..d, "." is at d+1 and the
\* top-level label is d+2..e.  "@" is in no class, so the local part is the
\* whole run that starts at s.
MatchEnds(text, s, tldClass) ==
  LET n == Len(text)
      a == RunEnd(text, s, LocalClass) + 1
  IN  IF a = s \/ a > n \/ text[a] # "@" THEN {}
      ELSE UNION { { <<d, e>> : e \in (d + 3)..RunEnd(text, d + 2, tldClass) } :
                   d \in { x \in (a + 1)..RunEnd(text, a + 1, DomainClass) :
                             x + 1 <= n /\ text[x + 1] = "." } }

\* The match of the discovery pattern that starts at s, as the backtracking
\* matcher finds it: greedy domain first, then greedy label, with \b on both
\* sides.  0 when there is none, otherwise the index of the last character.
MatchAt(text, s) ==
  IF ~WordBoundary(text, s) THEN 0
  ELSE LET ends == { de \in MatchEnds(text, s, DiscoveryTldClass) :
                       WordBoundary(text, de[2] + 1) }
       IN  IF ends = {} THEN 0
           ELSE LET d == Max({de[1] : de \in ends})
                IN  Max({de[2] : de \in {x \in ends : x[1] = d}})

\* the scan of findall: the leftmost match, then on from its end
RECURSIVE FindAllFrom(_, _)
FindAllFrom(text, pos) ==
  IF pos > Len(text) THEN <<>>
  ELSE LET e == MatchAt(text, pos)
       IN  IF e = 0 THEN FindAllFrom(text, pos + 1)
           ELSE <<SubSeq(text, pos, e)>> \o FindAllFrom(text, e + 1)

FindAll(text) == FindAllFrom(text, 1)

(***************************************************************************)
(* Deduplication loop (extract_emails.py:53-58)                            *)
(***************************************************************************)
\* the loop with the membership test on the text as found
RECURSIVE DedupeLoopExact(_, _, _, _)
DedupeLoopExact(found_emails, i, emails, seen) ==
  IF i > Len(found_emails) THEN emails
  ELSE LET email == found_emails[i]
       IN  IF email \notin seen
           THEN DedupeLoopExact(found_emails, i + 1, Append(emails, email),
                                seen \cup {email})
           ELSE DedupeLoopExact(found_emails, i + 1, emails, seen)

\* the loop keeping the lowercased text
RECURSIVE DedupeLoopLowered(_, _, _, _)
DedupeLoopLowered(found_emails, i, emails, seen) ==
  IF i > Len(found_emails) THEN emails
  ELSE LET email == found_emails[i]
       IN  IF Lower(email) \notin seen
           THEN DedupeLoopLowered(found_emails, i + 1,
                                  Append(emails, Lower(email)),
                                  seen \cup {Lower(email)})
           ELSE DedupeLoopLowered(found_emails, i + 1, emails, seen)

RECURSIVE DedupeLoop(_, _, _, _)
DedupeLoop(found_emails, i, emails, seen) ==
  IF i > Len(found_emails) THEN emails
  ELSE LET email == found_emails[i]
       IN  IF Lower(email) \notin seen
           THEN DedupeLoop(found_emails, i + 1, Append(emails, email),
                           seen \cup {Lower(email)})
           ELSE DedupeLoop(found_emails, i + 1, emails, seen)

Dedupe(found_emails) == DedupeLoop(found_emails, 1, <<>>, {})

(***************************************************************************)
(* Strict validation: re.match(strict_pattern, email)                      *)
(***************************************************************************)
\* "$" matches at the end of the string and before a final line break.
StrictMatch(email) ==
  LET n == Len(email)
      stops == {n} \cup (IF n >= 1 /\ email[n] = "\n" THEN {n - 1} ELSE {})
  IN  \E de \in MatchEnds(email, 1, StrictTldClass) : de[2] \in stops

RECURSIVE SelectSeqBy(_, _, _)
SelectSeqBy(s, i, keep) ==
  IF i > Len(s) THEN <<>>
  ELSE (IF StrictMatch(s[i]) = keep THEN <<s[i]>> ELSE <<>>)
         \o SelectSeqBy(s, i + 1, keep)

\* the loop without its else branch
validate_emails_no_else(email_list) ==
  LET valid_emails == SelectSeqBy(email_list, 1, TRUE)
  IN  [valid |-> valid_emails,
       invalid |-> <<>>,
       total_valid |-> Len(valid_emails),
       total_invalid |-> 0]

validate_emails(email_list) ==
  LET valid_emails   == SelectSeqBy(email_list, 1, TRUE)
      invalid_emails == SelectSeqBy(email_list, 1, FALSE)
  IN  [valid |-> valid_emails,
       invalid |-> invalid_emails,
       total_valid |-> Len(valid_emails),
       total_invalid |-> Len(invalid_emails)]

(***************************************************************************)
(* Bounds of the model                                                     *)
(***************************************************************************)
\* words per input text
MaxWords == 3

\* seconds the wall clock can advance
MaxClock == 1

\* entries of a list handed to validate_emails
MaxList == 3

(***************************************************************************)
(* Input texts                                                             *)
(***************************************************************************)
Words == { <<"a","@","b",".","c","o">>,
           <<"A","@","B",".","C","O">>,
           <<"c","@","d",".","i","o">>,
           <<"a","@","b",".","c","|","o">>,
           <<"h","i">> }

Seps == {" ", "\n"}

RECURSIVE JoinWords(_, _, _)
JoinWords(ws, i, sep) ==
  IF i > Len(ws) THEN <<>>
  ELSE (IF i > 1 THEN <<sep>> ELSE <<>>) \o ws[i] \o JoinWords(ws, i + 1, sep)

Texts ==
  { JoinWords(ws, 1, sep) :
      ws \in UNION {[1..k -> Words] : k \in 0..MaxWords}, sep \in Seps }

(***************************************************************************)
(* Paths and the file system                                               *)
(***************************************************************************)
\* None, for an optional path or title
None == <<>>

\* an argument that is not a str, bytes or os.PathLike (Path() raises TypeError)
NotAPath == <<"<int>">>

DirD == <<"d">>

InFile == <<"d","/","i">>

\* a file of directory d whose name starts with a line break
OddFile == <<"d","/","\n","1","."," ","x","@","y",".","z","z">>

\* a name longer than NAME_MAX: stat() fails with ENAMETOOLONG, which
\* Path.exists() re-raises before Python 3.14 and turns into False from 3.14 on
LongPath == <<"d","/","x{256}">>

OutNew == <<"o","/","r">>

\* a path below the input file
OutUnder == <<"d","/","i","/","r">>

InputArgs == {InFile, OddFile, LongPath, NotAPath, DirD}

OutputArgs == {None, OutNew, OutUnder, DirD, NotAPath}

Slashes(p) == {i \in 1..Len(p) : p[i] = "/"}

\* Path.parent
Parent(p) ==
  IF Slashes(p) = {} THEN <<".">> ELSE SubSeq(p, 1, Max(Slashes(p)) - 1)

\* Path.parents, without "."
Ancestors(p) == {SubSeq(p, 1, i - 1) : i \in Slashes(p)}

\* Path.__truediv__
JoinPath(dir, name) == dir \o <<"/">> \o name

NoFiles == [p \in {} |-> <<>>]

\* Path.exists() when stat() answers
Exists(ds, fs, p) == p \in ds \/ p \in DOMAIN fs

\* Path.mkdir(parents=True, exist_ok=True) raises when a component is a file
MkdirFails(fs, q) == \E a \in Ancestors(q) \cup {q} : a \in DOMAIN fs

MkdirResult(ds, q) == IF q = <<".">> THEN ds ELSE ds \cup Ancestors(q) \cup {q}

(***************************************************************************)
(* Formatting                                                              *)
(***************************************************************************)
LitFrom == <<"E","m","a","i","l"," ","a","d","d","r","e","s","s","e","s"," ","e","x","t","r","a","c","t","e","d"," ","f","r","o","m",":"," ">>

LitDate == <<"E","x","t","r","a","c","t","i","o","n"," ","d","a","t","e",":"," ">>

LitTotal == <<"T","o","t","a","l"," ","u","n","i","q","u","e"," ","e","m","a","i","l","s"," ","f","o","u","n","d",":"," ">>

LitName == <<"e","x","t","r","a","c","t","e","d","_","e","m","a","i","l","s","_">>

LitTxt == <<".","t","x","t">>

\* the clock counts the seconds after 2026-01-01 00:00:00
StampPrefix == <<"2","0","2","6","0","1","0","1","_","0","0","0","0">>

DatePrefix == <<"2","0","2","6","-","0","1","-","0","1"," ","0","0",":","0","0",":">>

TwoDigits(n) == <<DigitSeq[(n \div 10) + 1], DigitSeq[(n % 10) + 1]>>

\* strftime("%Y%m%d_%H%M%S")
FileStamp(t) == StampPrefix \o TwoDigits(t)

\* strftime('%Y-%m-%d %H:%M:%S')
DateStamp(t) == DatePrefix \o TwoDigits(t)

\* str(n) of a non-negative int
RECURSIVE Decimal(_)
Decimal(n) ==
  IF n < 10 THEN <<DigitSeq[n + 1]>>
  ELSE Decimal(n \div 10) \o <<DigitSeq[(n % 10) + 1]>>

Dashes(n) == [i \in 1..n |-> "-"]

\* the line numbered as enumerate(emails) numbers it, from 0
EnumLineFromZero(i, email) == Decimal(i - 1) \o <<".", " ">> \o email \o <<"\n">>

\* the i-th enumerated line of the report
EnumLine(i, email) == Decimal(i) \o <<".", " ">> \o email \o <<"\n">>

\* the strings handed to file.write(), in order
ReportChunks(input_file, t, emails) ==
  << LitFrom \o input_file \o <<"\n">>,
     LitDate \o DateStamp(t) \o <<"\n">>,
     LitTotal \o Decimal(Len(emails)) \o <<"\n">>,
     Dashes(50) \o <<"\n", "\n">> >>
  \o [i \in 1..Len(emails) |-> EnumLine(i, emails[i])]

RECURSIVE Concat(_, _)
Concat(chunks, k) ==
  IF k = 0 THEN <<>> ELSE Concat(chunks, k - 1) \o chunks[k]

\* the file name derived when no output path is given
AutoOutput(input_path, t) ==
  JoinPath(Parent(input_path), LitName \o FileStamp(t) \o LitTxt)

(***************************************************************************)
(* extract_emails_from_text (extract_emails.py:13-89)                      *)
(*                                                                         *)
(* ds, fs and t are the directories, the files and the clock when the call *)
(* starts.  The value is the set of the outcomes the environment allows:   *)
(* every step that touches the file system can fail with an OSError, and   *)
(* the clock may have advanced when the header is written.                 *)
(***************************************************************************)
Outcome(kind, stage, found, emails, path, ds, fs, t) ==
  [kind |-> kind, stage |-> stage, found |-> found, emails |-> emails,
   path |-> path, dirs |-> ds, files |-> fs, now |-> t]

\* line 29 and line 87: return [], None
EmptyResult(stage, found, ds, fs, t) ==
  Outcome("returned", stage, found, <<>>, None, ds, fs, t)

\* an exception leaves the function
RaisedResult(stage, ds, fs, t) ==
  Outcome("raised", stage, <<>>, <<>>, None, ds, fs, t)

\* the clock readings a later datetime.now() of the same call can give
LaterTimes(t) == {t2 \in {t, t + 1} : t2 <= MaxClock}

\* lines 62-76: the report is written when emails is not empty.  A failing
\* write() leaves the chunks written before it.
WriteReport(input_file, out, found, emails, ds, fs, t) ==
  LET ds2 == MkdirResult(ds, Parent(out))
      n == 4 + Len(emails)
  IN  {EmptyResult("mkdir_failed", found, ds, fs, t)}
      \cup
      (IF MkdirFails(fs, Parent(out)) THEN {}
       ELSE {EmptyResult("open_failed", found, ds2, fs, t)}
            \cup
            (IF out \in ds2 THEN {}
             ELSE { EmptyResult("write_failed", found, ds2,
                      (out :> Concat(ReportChunks(input_file, t2, emails), k))
                        @@ fs, t2) :
                      t2 \in LaterTimes(t), k \in 0..(n - 1) }
                  \cup
                  { Outcome("returned", "written", found, emails, out, ds2,
                      (out :> Concat(ReportChunks(input_file, t2, emails), n))
                        @@ fs, t2) :
                      t2 \in LaterTimes(t) }))

\* lines 44-89: the try block and the final return
ReadAndExtract(input_file, out, ds, fs, t) ==
  {EmptyResult("read_failed", <<>>, ds, fs, t)}
  \cup
  (IF input_file \in ds THEN {}
   ELSE LET content == fs[input_file]
            found_emails == FindAll(content)
            emails == Dedupe(found_emails)
        IN  IF emails # <<>>
            THEN WriteReport(input_file, out, found_emails, emails, ds, fs, t)
            ELSE {Outcome("returned", "no_emails", found_emails, emails, out,
                          ds, fs, t)})

\* stat() of the path fails with an error that Path.exists() re-raises
\* before Python 3.14 and answers with False from 3.14 on
StatFails(p) == p = LongPath

extract_emails_from_text(input_file, output_file, ds, fs, t) ==
  IF input_file = NotAPath THEN {RaisedResult("bad_input", ds, fs, t)}
  ELSE IF StatFails(input_file)
  THEN {RaisedResult("stat_raised", ds, fs, t),
        EmptyResult("missing", <<>>, ds, fs, t)}
  ELSE IF ~Exists(ds, fs, input_file)
  THEN {EmptyResult("missing", <<>>, ds, fs, t)}
  ELSE IF output_file = NotAPath THEN {RaisedResult("bad_output", ds, fs, t)}
  ELSE LET out == IF output_file = None THEN AutoOutput(input_file, t)
                                         ELSE output_file
       IN  ReadAndExtract(input_file, out, ds, fs, t)

(***************************************************************************)
(* State                                                                   *)
(***************************************************************************)
VARIABLES
  dirs,      \* the directories that exist
  files,     \* the files that exist: path -> content
  now,       \* the wall clock, in seconds
  calls,     \* calls of extract_emails_from_text still allowed
  ex,        \* the last call of extract_emails_from_text and its result
  val,       \* the last call of validate_emails and its result
  srcdir,    \* the source folder of move_jpg_files
  dstdir,    \* the destination folder of move_jpg_files
  mv,        \* the call of move_jpg_files: position, locals and result
  sc,        \* the call of scrape_webpage_title and its result
  sh         \* the interactive shell: position in main and what it ran

emailVars == <<dirs, files, now, calls, ex, val>>

moveVars == <<srcdir, dstdir, mv>>

vars == <<emailVars, moveVars, sc, sh>>

NoCall == [stage |-> "none"]

NoFolder == [kind |-> "missing", files |-> NoFiles]

\* no call of move_jpg_files is under way
MoveIdle == [pc |-> "idle"]

EmailIdle ==
  /\ dirs = {DirD}
  /\ files = NoFiles
  /\ now = 0
  /\ calls = 0
  /\ ex = NoCall
  /\ val = NoCall

MoveUnused ==
  /\ srcdir = NoFolder
  /\ dstdir = NoFolder
  /\ mv = MoveIdle

\* no call of scrape_webpage_title was made
ScrapeIdle == [pc |-> "idle"]

\* the interactive shell was not started
ShellIdle == [pc |-> "idle"]

OneWordTexts == {w \in Texts : w \in Words}

\* the input file holds any of the texts, the file with the odd name any
\* single word; or there is no file
InitFiles ==
  {NoFiles} \cup {InFile :> text : text \in Texts}
            \cup {OddFile :> text : text \in OneWordTexts}

Init ==
  /\ dirs = {DirD}
  /\ files \in InitFiles
  /\ now = 0
  /\ calls = 1
  /\ ex = NoCall
  /\ val = NoCall
  /\ MoveUnused
  /\ sc = ScrapeIdle
  /\ sh = ShellIdle

\* time passes before a call
Tick ==
  /\ calls > 0
  /\ now < MaxClock
  /\ now' = now + 1
  /\ UNCHANGED <<dirs, files, calls, ex, val, moveVars, sc, sh>>

Extract ==
  /\ calls > 0
  /\ \E input_file \in InputArgs, output_file \in OutputArgs :
       \E r \in extract_emails_from_text(input_file, output_file,
                                         dirs, files, now) :
         /\ dirs' = r.dirs
         /\ files' = r.files
         /\ now' = r.now
         /\ ex' = [input |-> input_file, output |-> output_file,
                   dirs0 |-> dirs, files0 |-> files, t0 |-> now,
                   kind |-> r.kind, stage |-> r.stage, found |-> r.found,
                   emails |-> r.emails, path |-> r.path]
  /\ calls' = calls - 1
  /\ UNCHANGED <<val, moveVars, sc, sh>>

Next == Tick \/ Extract

Spec == Init /\ [][Next]_vars

(***************************************************************************)
(* validate_emails on its own: the list is drawn by the initial state      *)
(***************************************************************************)
ValidateCandidates ==
  Words \cup { <<"b","@","d">>,
               <<"x","@","y",".","c","o",".","u","k">>,
               <<"a","@","b",".","c","o","\n">> }

ValidateInputs == UNION {[1..k -> ValidateCandidates] : k \in 0..MaxList}

InitValidate ==
  /\ dirs = {DirD}
  /\ files = NoFiles
  /\ now = 0
  /\ calls = 0
  /\ ex = NoCall
  /\ val \in {[stage |-> "input", email_list |-> l] : l \in ValidateInputs}
  /\ MoveUnused
  /\ sc = ScrapeIdle
  /\ sh = ShellIdle

Validate ==
  /\ val.stage = "input"
  /\ val' = [stage |-> "done", email_list |-> val.email_list,
             result |-> validate_emails(val.email_list)]
  /\ UNCHANGED <<dirs, files, now, calls, ex, moveVars, sc, sh>>

NextValidate == Validate

SpecValidate == InitValidate /\ [][NextValidate]_vars

(***************************************************************************)
(* move_jpg_files (move_jpg_files.py:12-79)                                *)
(*                                                                         *)
(* A folder is missing, a plain file, or a directory: name -> content.     *)
(* nocase tells whether names are compared without regard to case (glob    *)
(* patterns and look-ups on Windows) or exactly (POSIX).                   *)
(***************************************************************************)
\* files in a folder when the call starts
MaxFiles == 3

FileNames == { <<"a",".","j","p","g">>,
               <<"A",".","J","P","G">>,
               <<"b",".","j","p","e","g">>,
               <<"n",".","t","x","t">> }

\* the patterns of lines 41-42 after their "*", in the order they are globbed
GlobSuffixes == << <<".","j","p","g">>, <<".","J","P","G">>,
                   <<".","j","p","e","g">>, <<".","J","P","E","G">> >>

Fold(name, nocase) == IF nocase THEN Lower(name) ELSE name

EndsWith(name, suffix, nocase) ==
  /\ Len(name) >= Len(suffix)
  /\ Fold(SubSeq(name, Len(name) - Len(suffix) + 1, Len(name)), nocase)
       = Fold(suffix, nocase)

\* source_path.glob("*" + suffix), as a set
GlobMatches(folder, suffix, nocase) ==
  {n \in DOMAIN folder : EndsWith(n, suffix, nocase)}

\* the orders in which a directory listing can give the names of S
Orders(S) ==
  { q \in [1..Cardinality(S) -> S] :
      \A i, j \in 1..Cardinality(S) : i # j => q[i] # q[j] }

\* lines 41-42: the four listings, concatenated
Listings(folder, nocase) ==
  { o1 \o o2 \o o3 \o o4 :
      o1 \in Orders(GlobMatches(folder, GlobSuffixes[1], nocase)),
      o2 \in Orders(GlobMatches(folder, GlobSuffixes[2], nocase)),
      o3 \in Orders(GlobMatches(folder, GlobSuffixes[3], nocase)),
      o4 \in Orders(GlobMatches(folder, GlobSuffixes[4], nocase)) }

\* dest_file.exists()
DestExists(dst, name, nocase) ==
  \E n \in DOMAIN dst : Fold(n, nocase) = Fold(name, nocase)

Without(folder, name) == [n \in DOMAIN folder \ {name} |-> folder[n]]

FileOutcome(kind, src, dst) == [kind |-> kind, src |-> src, dst |-> dst]

\* shutil.move(src, dst) where dst does not exist: a rename, or across
\* devices a copy followed by the removal of the source; each can fail
MoveOutcomes(name, src, dst) ==
  IF name \notin DOMAIN src THEN {FileOutcome("error", src, dst)}
  ELSE { FileOutcome("moved", Without(src, name), (name :> src[name]) @@ dst),
         FileOutcome("error", src, dst),
         FileOutcome("error", src, (name :> "partial") @@ dst),
         FileOutcome("error", src, (name :> src[name]) @@ dst) }

\* shutil.move without the check of line 56: an existing file is replaced
ProcessFileUnchecked(name, src, dst, nocase) ==
  IF name \notin DOMAIN src THEN {FileOutcome("error", src, dst)}
  ELSE {FileOutcome("moved", Without(src, name), (name :> src[name]) @@ dst)}

\* lines 51-63: the body of the loop for one listed file
ProcessFile(name, src, dst, nocase) ==
  IF DestExists(dst, name, nocase) THEN {FileOutcome("skipped", src, dst)}
  ELSE MoveOutcomes(name, src, dst)

ErrMoving(name) == [what |-> "moving", name |-> name]

\* the locals after a failure that leaves the loop for the outer handler
AfterFileAbort(m, name, kind) ==
  [m EXCEPT !.i = @ + 1,
            !.pc = IF m.i = Len(m.jpg_files) \/ kind = "error"
                   THEN "done" ELSE "loop",
            !.moved_count = IF kind = "moved" THEN @ + 1 ELSE @,
            !.errors = IF kind = "error" THEN Append(@, ErrMoving(name)) ELSE @,
            !.log = Append(@, [name |-> name, kind |-> kind])]

\* lines 63-68 and the end of the loop: the locals after one listed file;
\* log keeps what happened to each listed file
AfterFile(m, name, kind) ==
  [m EXCEPT !.i = @ + 1,
            !.pc = IF m.i = Len(m.jpg_files) THEN "done" ELSE "loop",
            !.moved_count = IF kind = "moved" THEN @ + 1 ELSE @,
            !.errors = IF kind = "error" THEN Append(@, ErrMoving(name)) ELSE @,
            !.log = Append(@, [name |-> name, kind |-> kind])]

\* the directories of at most MaxFiles files a platform can hold
Folders(nocase, content) ==
  { [kind |-> "dir", files |-> [n \in S |-> content]] :
      S \in { T \in SUBSET FileNames :
                /\ Cardinality(T) <= MaxFiles
                /\ \A x, y \in T : Fold(x, nocase) = Fold(y, nocase) => x = y } }

AFile == [kind |-> "file", files |-> NoFiles]

InitMove ==
  /\ EmailIdle
  /\ sc = ScrapeIdle
  /\ sh = ShellIdle
  /\ \E nocase \in BOOLEAN :
       /\ mv = [pc |-> "idle", nocase |-> nocase]
       /\ srcdir \in {NoFolder} \cup Folders(nocase, "s")
       /\ dstdir \in {NoFolder, AFile} \cup Folders(nocase, "t")

Started(pc, nocase, jpg_files, errors) ==
  [pc |-> pc, nocase |-> nocase, jpg_files |-> jpg_files, i |-> 1,
   moved_count |-> 0, errors |-> errors, log |-> <<>>,
   src0 |-> srcdir.files, dst0 |-> dstdir.files]

\* lines 24-48: the checks, the destination folder and the listing
MoveCall ==
  /\ mv.pc = "idle"
  /\ UNCHANGED <<emailVars, srcdir, sc, sh>>
  /\ IF srcdir.kind = "missing"
     THEN /\ mv' = Started("done", mv.nocase, <<>>, <<[what |-> "no_source"]>>)
          /\ UNCHANGED dstdir
     ELSE IF dstdir.kind = "file"
     THEN /\ mv' = Started("raised", mv.nocase, <<>>, <<>>)
          /\ UNCHANGED dstdir
     ELSE /\ dstdir' = [kind |-> "dir", files |-> dstdir.files]
          /\ \/ mv' = Started("done", mv.nocase, <<>>,
                              <<[what |-> "unexpected"]>>)
             \/ \E l \in Listings(srcdir.files, mv.nocase) :
                  mv' = Started(IF l = <<>> THEN "done" ELSE "loop",
                                mv.nocase, l, <<>>)

\* lines 50-79: one turn of the loop, and the return after the last one
MoveStep ==
  /\ mv.pc = "loop"
  /\ UNCHANGED <<emailVars, sc, sh>>
  /\ LET name == mv.jpg_files[mv.i]
     IN  \E o \in ProcessFile(name, srcdir.files, dstdir.files, mv.nocase) :
           /\ srcdir' = [srcdir EXCEPT !.files = o.src]
           /\ dstdir' = [dstdir EXCEPT !.files = o.dst]
           /\ mv' = AfterFile(mv, name, o.kind)

NextMove == MoveCall \/ MoveStep

SpecMove == InitMove /\ [][NextMove]_vars

(***************************************************************************)
(* scrape_webpage_title (scrape_webpage_title.py:15-105)                   *)
(*                                                                         *)
(* A URL is given by what urlparse() makes of it, a response by its status *)
(* and by what re.search() finds in its text: None, or the title after the *)
(* clean-up of lines 53-57.  Fixed texts of the report are single elements *)
(* of the content.                                                         *)
(***************************************************************************)
Some(x) == <<x>>

StatusOK == 200

Urls ==
  { [text |-> "https://h.io", raises |-> FALSE, scheme |-> "https",
     netloc |-> <<"h",".","i","o">>],
    [text |-> "http://h:80/x", raises |-> FALSE, scheme |-> "http",
     netloc |-> <<"h",":","8","0">>],
    [text |-> "h.io", raises |-> FALSE, scheme |-> "", netloc |-> <<>>],
    [text |-> "file:///x", raises |-> FALSE, scheme |-> "file",
     netloc |-> <<>>],
    [text |-> "http://[::1", raises |-> TRUE, scheme |-> "", netloc |-> <<>>] }

Titles == { <<>>, <<"H","i">>, <<"H","i"," ","y","o","u">> }

\* what requests.get() does: it raises, or it gives a response
Responses ==
  { [kind |-> k] : k \in {"timeout", "connection", "request_error",
                          "other_error"} }
  \cup
  { [kind |-> "response", status |-> st, match |-> m] :
      st \in {StatusOK, 404, 500},
      m \in {None} \cup {Some(title) : title \in Titles} }

\* re.sub(r'[^\w\-_\.]', '_', netloc)
SafeDomain(netloc) ==
  [i \in 1..Len(netloc) |->
     IF netloc[i] \in WordClass \cup {"-", "_", "."} THEN netloc[i] ELSE "_"]

\* Path(__file__).parent.parent / "output" / the derived file name
AutoTitlePath(netloc, t) ==
  <<"o","u","t","p","u","t","/">> \o <<"webpage_title_">> \o SafeDomain(netloc)
    \o <<"_">> \o FileStamp(t) \o LitTxt

\* len(title.split())
WordCount(title) ==
  Cardinality({ i \in 1..Len(title) :
                  title[i] # " " /\ (i = 1 \/ title[i - 1] = " ") })

\* lines 74-83: the strings handed to file.write(), in order
TitleChunks(url, title, status, t) ==
  << <<"Webpage Title Extraction Report", "\n">>,
     Dashes(40) \o <<"\n", "\n">>,
     <<"URL: ", url.text, "\n">>,
     <<"Scraped on: ">> \o DateStamp(t) \o <<"\n">>,
     <<"HTTP Status: ">> \o Decimal(status) \o <<"\n">>,
     <<"Domain: ">> \o url.netloc \o <<"\n">>,
     Dashes(40) \o <<"\n", "\n">>,
     <<"Title: ">> \o title \o <<"\n", "\n">>,
     <<"Title length: ">> \o Decimal(Len(title)) \o <<" characters", "\n">>,
     <<"Title word count: ">> \o Decimal(WordCount(title)) \o <<"\n">> >>

ScrapeOutcome(kind, outcome, title, path, status, requests, ds, fs, t) ==
  [kind |-> kind, outcome |-> outcome, title |-> title, path |-> path,
   status |-> status, requests |-> requests, dirs |-> ds, files |-> fs,
   now |-> t]

\* return None, None, status
NoTitle(outcome, status, requests, ds, fs, t) ==
  ScrapeOutcome("returned", outcome, None, None, status, requests, ds, fs, t)

\* the failure leaves the function, as without the handler of line 103
UnexpectedRaises(outcome, requests, ds, fs, t) ==
  ScrapeOutcome("raised", outcome, None, None, None, requests, ds, fs, t)

\* lines 103-105: except Exception
Unexpected(outcome, requests, ds, fs, t) ==
  NoTitle(outcome, None, requests, ds, fs, t)

\* lines 61-86: the output path and the report
SaveTitle(url, title, output_file, status, ds, fs, t) ==
  IF output_file = NotAPath THEN {Unexpected("bad_output", 1, ds, fs, t)}
  ELSE
    LET out == IF output_file = None THEN AutoTitlePath(url.netloc, t)
                                      ELSE output_file
        ds2 == MkdirResult(ds, Parent(out))
    IN  {Unexpected("mkdir_failed", 1, ds, fs, t)}
        \cup
        (IF MkdirFails(fs, Parent(out)) THEN {}
         ELSE {Unexpected("open_failed", 1, ds2, fs, t)}
              \cup
              (IF out \in ds2 THEN {}
               ELSE { Unexpected("write_failed", 1, ds2,
                        (out :> Concat(TitleChunks(url, title, status, t2), k))
                          @@ fs, t2) :
                        t2 \in LaterTimes(t), k \in 0..9 }
                    \cup
                    { ScrapeOutcome("returned", "saved", Some(title), Some(out),
                        Some(status), 1, ds2,
                        (out :> Concat(TitleChunks(url, title, status, t2), 10))
                          @@ fs, t2) :
                        t2 \in LaterTimes(t) }))

\* lines 43-92: what is made of the answer of requests.get()
HandleResponse(url, response, output_file, ds, fs, t) ==
  IF response.kind = "timeout" THEN {NoTitle("timeout", None, 1, ds, fs, t)}
  ELSE IF response.kind = "connection"
  THEN {NoTitle("connection", None, 1, ds, fs, t)}
  ELSE IF response.kind = "request_error"
  THEN {NoTitle("request_error", None, 1, ds, fs, t)}
  ELSE IF response.kind = "other_error"
  THEN {Unexpected("other_error", 1, ds, fs, t)}
  ELSE IF response.status # StatusOK
  THEN {NoTitle("bad_status", Some(response.status), 1, ds, fs, t)}
  ELSE IF response.match = None
  THEN {NoTitle("no_title", Some(response.status), 1, ds, fs, t)}
  ELSE SaveTitle(url, response.match[1], output_file, response.status,
                 ds, fs, t)

scrape_webpage_title(url, response, output_file, ds, fs, t) ==
  IF url.raises THEN {Unexpected("bad_url", 0, ds, fs, t)}
  ELSE IF url.scheme = "" \/ url.netloc = <<>>
  THEN {NoTitle("invalid_url", None, 0, ds, fs, t)}
  ELSE HandleResponse(url, response, output_file, ds, fs, t)

InitScrape ==
  /\ dirs = {DirD}
  /\ files = (InFile :> <<>>)
  /\ now \in 0..MaxClock
  /\ calls = 0
  /\ ex = NoCall
  /\ val = NoCall
  /\ MoveUnused
  /\ sc = ScrapeIdle
  /\ sh = ShellIdle

Scrape ==
  /\ sc.pc = "idle"
  /\ \E url \in Urls, response \in Responses, output_file \in OutputArgs :
       \E r \in scrape_webpage_title(url, response, output_file,
                                     dirs, files, now) :
         /\ dirs' = r.dirs
         /\ files' = r.files
         /\ now' = r.now
         /\ sc' = [pc |-> "done", url |-> url, response |-> response,
                   output |-> output_file, dirs0 |-> dirs, files0 |-> files,
                   kind |-> r.kind, outcome |-> r.outcome, title |-> r.title,
                   path |-> r.path, status |-> r.status,
                   requests |-> r.requests]
  /\ UNCHANGED <<calls, ex, val, moveVars, sh>>

NextScrape == Scrape

SpecScrape == InitScrape /\ [][NextScrape]_vars

(***************************************************************************)
(* Properties                                                              *)
(***************************************************************************)
Range(s) == {s[i] : i \in 1..Len(s)}

Called == ex.stage # "none"

\* the dedup loop ran to its end in the last call
Deduped == ex.stage \in {"written", "no_emails"}

\* C1: the list returned by extract_emails_from_text never holds two entries
\* that are equal after lowercasing.
C1_NoCaseInsensitiveDuplicates ==
  Called =>
    \A i, j \in 1..Len(ex.emails) :
      i # j => Lower(ex.emails[i]) # Lower(ex.emails[j])

\* the text held two raw matches that differ in case only, and a list came back
C1_Witness ==
  /\ Called
  /\ ex.emails # <<>>
  /\ \E i, j \in 1..Len(ex.found) :
       ex.found[i] # ex.found[j] /\ Lower(ex.found[i]) = Lower(ex.found[j])

\* the entries of s at the indices in idx, in increasing order of index
RECURSIVE PickFrom(_, _, _)
PickFrom(s, idx, i) ==
  IF i > Len(s) THEN <<>>
  ELSE (IF i \in idx THEN <<s[i]>> ELSE <<>>) \o PickFrom(s, idx, i + 1)

\* the indices of the raw matches that no earlier raw match equals
\* case-insensitively
FirstOccurrences(found) ==
  { i \in 1..Len(found) :
      \A j \in 1..(i - 1) : Lower(found[j]) # Lower(found[i]) }

\* C2: deduplication keeps, of each group of raw matches equal
\* case-insensitively, exactly the first one with its own casing, in the
\* order of first appearance in the text.
C2_FirstSeenKept ==
  Deduped => ex.emails = PickFrom(ex.found, FirstOccurrences(ex.found), 1)

\* the raw matches [a@b.co, A@B.CO] gave exactly [a@b.co]
C2_Witness ==
  /\ Deduped
  /\ ex.found = << <<"a","@","b",".","c","o">>, <<"A","@","B",".","C","O">> >>
  /\ ex.emails = << <<"a","@","b",".","c","o">> >>

\* C3: validate_emails splits its input: the lengths add up, every entry is
\* in exactly one list, each list keeps the order of the input, and the two
\* totals are the lengths of the lists.
C3_ValidatePartitions ==
  val.stage = "done" =>
    LET l == val.email_list
        r == val.result
        inValid == {i \in 1..Len(l) : l[i] \in Range(r.valid)}
        inInvalid == {i \in 1..Len(l) : l[i] \in Range(r.invalid)}
    IN  /\ Len(r.valid) + Len(r.invalid) = Len(l)
        /\ inValid \cup inInvalid = 1..Len(l)
        /\ inValid \cap inInvalid = {}
        /\ r.valid = PickFrom(l, inValid, 1)
        /\ r.invalid = PickFrom(l, inInvalid, 1)
        /\ r.total_valid = Len(r.valid)
        /\ r.total_invalid = Len(r.invalid)

\* a list of three entries went into both lists
C3_Witness ==
  /\ val.stage = "done"
  /\ Len(val.email_list) = 3
  /\ Len(val.result.valid) = 2
  /\ Len(val.result.invalid) = 1

\* C4: a file without email-like text gives an empty list, a null output
\* path and no report; a non-null output path is returned only when the
\* report was written at that path.
C4_NoEmailsNullPath ==
  Called =>
    /\ ex.stage = "no_emails" =>
         /\ ex.emails = <<>>
         /\ ex.path = None
         /\ files = ex.files0
         /\ dirs = ex.dirs0
    /\ ex.path # None => ex.stage = "written" /\ ex.path \in DOMAIN files

\* the argument is a path and nothing exists under it when the call starts
InputMissing ==
  /\ Called
  /\ ex.input # NotAPath
  /\ ~Exists(ex.dirs0, ex.files0, ex.input)

\* C5: when the input path does not exist the call returns ([], None) and
\* leaves the file system as it was, whatever the output argument.
C5_MissingInputNoEffect ==
  InputMissing =>
    /\ ex.kind = "returned"
    /\ ex.emails = <<>>
    /\ ex.path = None
    /\ dirs = ex.dirs0
    /\ files = ex.files0

\* C6: extract_emails_from_text never raises to its caller, and a failure at
\* any step gives the empty list with a null output path.
C6_NeverRaises ==
  Called =>
    /\ ex.kind = "returned"
    /\ ex.stage \notin {"written", "no_emails"} =>
         ex.emails = <<>> /\ ex.path = None

(***************************************************************************)
(* Reading a report back: its lines, and those of the form "<i>. <text>"   *)
(***************************************************************************)
LineEnd(content, i) ==
  Min({j \in i..(Len(content) + 1) :
         j = Len(content) + 1 \/ content[j] = "\n"})

RECURSIVE LinesFrom(_, _)
LinesFrom(content, i) ==
  IF i > Len(content) THEN <<>>
  ELSE <<SubSeq(content, i, LineEnd(content, i) - 1)>>
         \o LinesFrom(content, LineEnd(content, i) + 1)

DigitValue(c) == (CHOOSE i \in 1..10 : DigitSeq[i] = c) - 1

RECURSIVE ParseDecimal(_)
ParseDecimal(ds) ==
  IF Len(ds) = 0 THEN 0
  ELSE 10 * ParseDecimal(SubSeq(ds, 1, Len(ds) - 1)) + DigitValue(ds[Len(ds)])

IsEnumLine(line) ==
  LET k == RunEnd(line, 1, Digits)
  IN  k >= 1 /\ Len(line) >= k + 2 /\ line[k + 1] = "." /\ line[k + 2] = " "

EnumEntry(line) ==
  LET k == RunEnd(line, 1, Digits)
  IN  <<ParseDecimal(SubSeq(line, 1, k)), SubSeq(line, k + 3, Len(line))>>

RECURSIVE EnumEntries(_, _)
EnumEntries(lines, i) ==
  IF i > Len(lines) THEN <<>>
  ELSE (IF IsEnumLine(lines[i]) THEN <<EnumEntry(lines[i])>> ELSE <<>>)
         \o EnumEntries(lines, i + 1)

HasPrefix(line, prefix) ==
  Len(line) >= Len(prefix) /\ SubSeq(line, 1, Len(prefix)) = prefix

\* the counts of the "Total unique emails found: <n>" lines
HeaderCounts(lines) ==
  { ParseDecimal(SubSeq(lines[i], Len(LitTotal) + 1, Len(lines[i]))) :
      i \in { j \in 1..Len(lines) :
                /\ HasPrefix(lines[j], LitTotal)
                /\ RunEnd(lines[j], Len(LitTotal) + 1, Digits) = Len(lines[j])
                /\ Len(lines[j]) > Len(LitTotal) } }

\* the report of the last call reads back as the returned list, numbered
\* 1..n, under a header that counts n
ReportReadsBack ==
  LET lines == LinesFrom(files[ex.path], 1)
  IN  /\ EnumEntries(lines, 1) =
           [i \in 1..Len(ex.emails) |-> <<i, ex.emails[i]>>]
      /\ HeaderCounts(lines) = {Len(ex.emails)}

\* C7 as stated: whenever a report is written, its enumerated lines read
\* back as exactly the returned list, numbered 1..n with n the header count.
C7_RoundTripAnyInput ==
  (Called /\ ex.stage = "written") => ReportReadsBack

\* C7 as amended: the same, when the input path as passed holds no line break
\* (the header prints the path as it is).
C7_RoundTrip ==
  (Called /\ ex.stage = "written" /\ "\n" \notin Range(ex.input))
    => ReportReadsBack

\* a report listing two emails was written for an input path without a
\* line break
C7_Witness ==
  /\ Called
  /\ ex.stage = "written"
  /\ "\n" \notin Range(ex.input)
  /\ Len(ex.emails) >= 2
  /\ ex.path \in DOMAIN files

(***************************************************************************)
(* Properties of move_jpg_files                                            *)
(***************************************************************************)
InLoop == mv.pc = "loop"

Current == mv.jpg_files[mv.i]

\* the destination already holds the name of the file about to be processed
AboutToSkip == InLoop /\ DestExists(dstdir.files, Current, mv.nocase)

\* the turn of the loop tried to move the file and the file is still in the
\* source folder
FailedTurn ==
  /\ InLoop
  /\ ~DestExists(dstdir.files, Current, mv.nocase)
  /\ Current \in DOMAIN srcdir'.files

\* C8: move_jpg_files never overwrites: processing a listed file whose name
\* the destination already holds leaves both folders, the moved count and the
\* error list as they are; and no file the destination held at the start is
\* ever changed.
C8_NeverOverwrites ==
  /\ [][AboutToSkip =>
          /\ dstdir' = dstdir
          /\ srcdir' = srcdir
          /\ mv'.moved_count = mv.moved_count
          /\ mv'.errors = mv.errors]_vars
  /\ [](mv.pc \in {"loop", "done"} =>
          \A n \in DOMAIN mv.dst0 :
            n \in DOMAIN dstdir.files /\ dstdir.files[n] = mv.dst0[n])

\* a file was skipped: it is still in the source folder, the destination
\* still holds its own file of that name, and nothing was counted for it
C8_Witness ==
  /\ mv.pc = "done"
  /\ \E k \in 1..Len(mv.log) :
       /\ mv.log[k].kind = "skipped"
       /\ mv.log[k].name \in DOMAIN srcdir.files
       /\ mv.log[k].name \in DOMAIN mv.dst0
       /\ dstdir.files[mv.log[k].name] = "t"
       /\ mv.moved_count = 0
       /\ mv.errors = <<>>

\* C9: a failure while moving one file adds one entry to the error list,
\* leaves the moved count alone and does not end the run: the loop goes on to
\* the next listed file, and the call returns only after every listed file
\* was processed.
C9_FailureDoesNotAbort ==
  /\ [][FailedTurn =>
          /\ mv'.errors = Append(mv.errors, ErrMoving(Current))
          /\ mv'.moved_count = mv.moved_count
          /\ mv'.i = mv.i + 1
          /\ mv'.pc = IF mv.i < Len(mv.jpg_files) THEN "loop" ELSE "done"]_vars
  /\ [](mv.pc = "done" =>
          /\ Len(mv.log) = Len(mv.jpg_files)
          /\ \A k \in 1..Len(mv.log) : mv.log[k].name = mv.jpg_files[k])

\* a move failed and a file listed after it was moved all the same
C9_Witness ==
  /\ mv.pc = "done"
  /\ Len(mv.errors) = 1
  /\ mv.moved_count = 1
  /\ \E j, k \in 1..Len(mv.log) :
       j < k /\ mv.log[j].kind = "error" /\ mv.log[k].kind = "moved"
             /\ mv.log[j].name # mv.log[k].name

(***************************************************************************)
(* Properties of scrape_webpage_title                                      *)
(***************************************************************************)
Scraped == sc.pc = "done"

\* C10: scrape_webpage_title never lets an exception out; every failure
\* outcome returns a null title and a null output path, with the HTTP status
\* third for a non-200 status or a missing title tag and null third for a
\* transport failure; and a call makes at most one network request.
C10_FailuresReturnNullTitle ==
  Scraped =>
    /\ sc.kind = "returned"
    /\ sc.requests <= 1
    /\ sc.outcome # "saved" => sc.title = None /\ sc.path = None
    /\ sc.outcome \in {"bad_status", "no_title"} =>
         sc.status = Some(sc.response.status)
    /\ sc.outcome \in {"timeout", "connection", "request_error"} =>
         sc.status = None

\* a title was found and writing the report failed after the request: the
\* call returned the three nulls
C10_Witness ==
  /\ Scraped
  /\ sc.outcome = "write_failed"
  /\ sc.response.status = StatusOK
  /\ sc.requests = 1
  /\ sc.kind = "returned"
  /\ sc.title = None /\ sc.path = None /\ sc.status = None

(***************************************************************************)
(* The interactive shell (automation_demo.py:248-282)                      *)
(*                                                                         *)
(* input() returns a line, or raises EOFError when the input has ended, or *)
(* KeyboardInterrupt when the user interrupts.  A task returns, raises an  *)
(* Exception, or is interrupted.  print is taken not to fail.              *)
(***************************************************************************)
\* the number of times the menu is displayed
MaxTurns == 3

InputLines ==
  { <<"0">>, <<"1">>, <<"2">>, <<"3">>, <<"4">>, <<"5">>, <<"9">>, <<>>,
    <<" ","1">>, <<"0"," ">>, <<"1","0">> }

\* str.strip(), for lines made of printable characters and spaces
Strip(line) ==
  LET inked == {i \in 1..Len(line) : line[i] # " "}
  IN  IF inked = {} THEN <<>> ELSE SubSeq(line, Min(inked), Max(inked))

ReadOutcomes ==
  {[kind |-> "line", line |-> l] : l \in InputLines}
    \cup {[kind |-> "eof"], [kind |-> "interrupt"]}

\* task_scrape_webpage and install_requirements wrap their work in
\* try/except Exception; the other two tasks do not
TaskResults(task) ==
  IF task \in {"task_scrape_webpage", "install_requirements"}
  THEN {"returned", "interrupted"}
  ELSE {"returned", "raised", "interrupted"}

\* the tasks are called one after the other; the first that does not return
\* ends the sequence
RunInOrder(tasks) ==
  UNION {{[ran |-> SubSeq(tasks, 1, k), result |-> r] :
            r \in IF k < Len(tasks)
                  THEN TaskResults(tasks[k]) \ {"returned"}
                  ELSE TaskResults(tasks[k])} :
         k \in 1..Len(tasks)}

run_all_tasks ==
  <<"task_move_jpg_files", "task_extract_emails", "task_scrape_webpage">>

\* the if/elif chain of main: the functions a choice calls
TasksOf(choice) ==
  CASE choice = <<"1">> -> <<"task_move_jpg_files">>
    [] choice = <<"2">> -> <<"task_extract_emails">>
    [] choice = <<"3">> -> <<"task_scrape_webpage">>
    [] choice = <<"4">> -> run_all_tasks
    [] choice = <<"5">> -> <<"install_requirements">>
    [] OTHER -> <<>>

\* the else branch only prints
Dispatch(choice) ==
  IF TasksOf(choice) = <<>>
  THEN {[ran |-> <<>>, result |-> "returned"]}
  ELSE RunInOrder(TasksOf(choice))

\* pc: the next statement of main; shown: menus displayed; history: the
\* choices read; read, choice, ran, invalid: whether this turn of the loop
\* read a choice, the choice, the functions it called and whether it printed
\* "Invalid choice!"; end: how main ended
ShellStart ==
  [pc |-> "menu", shown |-> 0, history |-> <<>>, read |-> FALSE,
   choice |-> <<>>, ran |-> <<>>, invalid |-> FALSE, end |-> "none"]

Ended(s, end) == [s EXCEPT !.pc = "done", !.end = end]

Goto(s, pc) == [s EXCEPT !.pc = pc]

Chosen(s, choice, d) ==
  [pc |-> CASE d.result = "returned" -> "pause"
            [] d.result = "raised" -> "handler"
            [] OTHER -> "done",
   shown |-> s.shown, history |-> Append(s.history, choice), read |-> TRUE,
   choice |-> choice, ran |-> d.ran, invalid |-> TasksOf(choice) = <<>>,
   end |-> IF d.result = "interrupted" THEN "interrupt" ELSE s.end]

InitShell ==
  /\ EmailIdle
  /\ MoveUnused
  /\ sc = ScrapeIdle
  /\ sh = ShellStart

\* line 254: display_menu(), the first statement of the loop, outside try
DisplayMenu ==
  /\ sh.pc = "menu"
  /\ sh.shown < MaxTurns
  /\ sh' = [sh EXCEPT !.pc = "choice", !.shown = sh.shown + 1,
                       !.read = FALSE, !.choice = <<>>, !.ran = <<>>,
                       !.invalid = FALSE]
  /\ UNCHANGED <<emailVars, moveVars, sc>>

\* lines 257-273: read the choice and dispatch on it
ReadChoice ==
  /\ sh.pc = "choice"
  /\ \E r \in ReadOutcomes :
       \/ /\ r.kind = "eof"
          /\ sh' = Goto(sh, "handler")
       \/ /\ r.kind = "interrupt"
          /\ sh' = Ended(sh, "interrupt")
       \/ /\ r.kind = "line"
          /\ LET choice == Strip(r.line)
             IN  IF choice = <<"0">>
                 THEN sh' = [sh EXCEPT !.pc = "done", !.end = "exit",
                                       !.read = TRUE, !.choice = choice,
                                       !.history = Append(@, choice)]
                 ELSE \E d \in Dispatch(choice) :
                        sh' = Chosen(sh, choice, d)
  /\ UNCHANGED <<emailVars, moveVars, sc>>

\* line 275: input("Press Enter to continue..."), inside the try
Pause ==
  /\ sh.pc = "pause"
  /\ \E r \in ReadOutcomes :
       \/ /\ r.kind = "line"
          /\ sh' = Goto(sh, "menu")
       \/ /\ r.kind = "eof"
          /\ sh' = Goto(sh, "handler")
       \/ /\ r.kind = "interrupt"
          /\ sh' = Ended(sh, "interrupt")
  /\ UNCHANGED <<emailVars, moveVars, sc>>

\* lines 280-282: the handler's own input() is not inside any try
Handler ==
  /\ sh.pc = "handler"
  /\ \E r \in ReadOutcomes :
       \/ /\ r.kind = "line"
          /\ sh' = Goto(sh, "menu")
       \/ /\ r.kind \in {"eof", "interrupt"}
          /\ sh' = Ended(sh, "uncaught")
  /\ UNCHANGED <<emailVars, moveVars, sc>>

NextShell == DisplayMenu \/ ReadChoice \/ Pause \/ Handler

SpecShell == InitShell /\ [][NextShell]_vars

\* the interpreter keeps running main until it returns or raises
FairShell == SpecShell /\ WF_vars(NextShell)

(***************************************************************************)
(* C11, C12: the interactive shell                                         *)
(***************************************************************************)
\* C11: no exception ends the process: whatever is read and whatever the
\* tasks do, main ends only by the exit choice, never by an exception that
\* leaves the loop or escapes from main.
C11_OnlyExitEndsShell ==
  sh.pc = "done" => sh.end = "exit"

\* C12: a choice runs exactly the functions of its menu entry, in order (cut
\* short only by a task that does not return), an invalid choice runs
\* nothing and prints the error, the choice 0 ends the loop, and after every
\* choice other than 0 that ran no task the loop comes back to its head,
\* where the menu is displayed.
InvalidChosen == sh.read /\ sh.invalid

C12_MenuDispatch ==
  /\ [](sh.read =>
          /\ \E k \in 0..Len(TasksOf(sh.choice)) :
               sh.ran = SubSeq(TasksOf(sh.choice), 1, k)
          /\ sh.pc = "pause" => sh.ran = TasksOf(sh.choice)
          /\ sh.invalid <=>
               (sh.choice \notin {<<"0">>, <<"1">>, <<"2">>, <<"3">>,
                                  <<"4">>, <<"5">>})
          /\ sh.choice = <<"0">> => sh.pc = "done" /\ sh.end = "exit")
  /\ (InvalidChosen ~> sh.pc = "menu")

(***************************************************************************)
(* C13: the discovery pattern against the strict pattern                   *)
(***************************************************************************)
\* the text after the last dot
TopLabel(email) ==
  LET dots == {i \in 1..Len(email) : email[i] = "."}
  IN  IF dots = {} THEN email ELSE SubSeq(email, Max(dots) + 1, Len(email))

\* C13: every string that re.findall returned in a call ends in a label of
\* two or more letters and is classified valid by validate_emails.
C13_DiscoveredAreValid ==
  Deduped =>
    /\ \A i \in 1..Len(ex.found) :
         /\ Len(TopLabel(ex.found[i])) >= 2
         /\ \A j \in 1..Len(TopLabel(ex.found[i])) :
              TopLabel(ex.found[i])[j] \in Upper \cup Lowercase
    /\ validate_emails(ex.found).invalid = <<>>

(***************************************************************************)
(* Runs of the pipeline: main of extract_emails.py (lines 120-174) and     *)
(* calls of extract_emails_from_text, one after the other                  *)
(***************************************************************************)
\* calls of the pipeline in one behaviour
MaxRuns == 2

LitReportName == <<"e","m","a","i","l","_","v","a","l","i","d","a","t","i","o","n","_","r","e","p","o","r","t",".","t","x","t">>

LitTitle == <<"E","m","a","i","l"," ","V","a","l","i","d","a","t","i","o","n"," ","R","e","p","o","r","t","\n">>

LitFound == <<"T","o","t","a","l"," ","e","m","a","i","l","s"," ","f","o","u","n","d",":"," ">>

LitValid == <<"V","a","l","i","d"," ","e","m","a","i","l","s",":"," ">>

LitInvalid == <<"I","n","v","a","l","i","d"," ","e","m","a","i","l","s",":"," ">>

LitValidHead == <<"V","a","l","i","d"," ","E","m","a","i","l","s",":","\n">>

LitReviewHead == <<"\n","E","m","a","i","l","s"," ","N","e","e","d","i","n","g"," ","R","e","v","i","e","w",":","\n">>

Equals(n) == [i \in 1..n |-> "="]

\* Path.with_name
WithName(path, name) == JoinPath(Parent(path), name)

\* lines 156-172: the strings handed to file.write(), in order
ValidationChunks(emails, v) ==
  << LitTitle,
     Equals(30) \o <<"\n", "\n">>,
     LitFound \o Decimal(Len(emails)) \o <<"\n">>,
     LitValid \o Decimal(v.total_valid) \o <<"\n">>,
     LitInvalid \o Decimal(v.total_invalid) \o <<"\n", "\n">> >>
  \o (IF v.valid = <<>> THEN <<>>
      ELSE <<LitValidHead, Dashes(15) \o <<"\n">>>>
             \o [i \in 1..Len(v.valid) |-> v.valid[i] \o <<"\n">>])
  \o (IF v.invalid = <<>> THEN <<>>
      ELSE <<LitReviewHead, Dashes(25) \o <<"\n">>>>
             \o [i \in 1..Len(v.invalid) |-> v.invalid[i] \o <<"\n">>])

\* lines 153-174: open(validation_file, 'w') truncates the file; no try
\* surrounds the block, so a failing open() or write() leaves main
SaveValidation(emails, output_file, fs) ==
  LET validation_file == WithName(output_file, LitReportName)
      chunks == ValidationChunks(emails, validate_emails(emails))
      n == Len(chunks)
  IN  {[stage |-> "open_raised", path |-> validation_file, files |-> fs]}
      \cup
      {[stage |-> "write_raised", path |-> validation_file,
        files |-> (validation_file :> Concat(chunks, k)) @@ fs] :
         k \in 0..(n - 1)}
      \cup
      {[stage |-> "reported", path |-> validation_file,
        files |-> (validation_file :> Concat(chunks, n)) @@ fs]}

\* what main does after extract_emails_from_text gave r
AfterExtraction(r) ==
  IF r.kind = "raised"
  THEN {[stage |-> "extract_raised", path |-> None, files |-> r.files]}
  ELSE IF r.emails = <<>> \/ r.path = None
  THEN {[stage |-> "no_emails", path |-> None, files |-> r.files]}
  ELSE SaveValidation(r.emails, r.path, r.files)

\* the texts the input file can be changed to between two runs
EditTexts == OneWordTexts

InitRuns ==
  /\ dirs = {DirD}
  /\ files \in {InFile :> text : text \in EditTexts}
  /\ now = 0
  /\ calls = MaxRuns
  /\ ex = NoCall
  /\ val = NoCall
  /\ MoveUnused
  /\ sc = ScrapeIdle
  /\ sh = ShellIdle

\* the input file is given another text before a run
EditInput ==
  /\ calls > 0
  /\ calls < MaxRuns
  /\ \E text \in EditTexts :
       /\ text # files[InFile]
       /\ files' = [files EXCEPT ![InFile] = text]
  /\ UNCHANGED <<dirs, now, calls, ex, val, moveVars, sc, sh>>

\* main of extract_emails.py: the extraction with the derived output path,
\* then the validation report beside the extraction report
Main ==
  /\ calls > 0
  /\ \E r \in extract_emails_from_text(InFile, None, dirs, files, now) :
       \E w \in AfterExtraction(r) :
         /\ dirs' = r.dirs
         /\ files' = w.files
         /\ now' = r.now
         /\ ex' = [input |-> InFile, output |-> None,
                   dirs0 |-> dirs, files0 |-> files, t0 |-> now,
                   kind |-> r.kind, stage |-> r.stage, found |-> r.found,
                   emails |-> r.emails, path |-> r.path]
         /\ val' = [stage |-> w.stage, email_list |-> r.emails,
                    result |-> validate_emails(r.emails), path |-> w.path]
  /\ calls' = calls - 1
  /\ UNCHANGED <<moveVars, sc, sh>>

NextRuns == Tick \/ EditInput \/ Extract \/ Main

SpecRuns == InitRuns /\ [][NextRuns]_vars

(***************************************************************************)
(* C14: reports are write-once                                             *)
(***************************************************************************)
\* C14: a report that one run of the pipeline wrote in full is not changed
\* by a later run: neither the extraction report of a call of
\* extract_emails_from_text (output path derived or given) nor the
\* validation report of main.
C14_ReportsWriteOnce ==
  [][/\ ex.stage = "written" /\ ex'.stage = "written" =>
          files'[ex.path] = files[ex.path]
     /\ val.stage = "reported" /\ val'.stage = "reported" =>
          files'[val.path] = files[val.path]]_vars

(***************************************************************************)
(* C15: move_jpg_files conserves files                                     *)
(***************************************************************************)
\* the files the listing matched
Matched == Range(mv.jpg_files)

\* the file is still in the source folder
InSource(name) == name \in DOMAIN srcdir.files

\* the file of the source folder is in the destination folder
InDestination(name) ==
  /\ name \in DOMAIN dstdir.files
  /\ name \in DOMAIN mv.src0
  /\ dstdir.files[name] = mv.src0[name]

Turns(kind) == Cardinality({i \in 1..Len(mv.log) : mv.log[i].kind = kind})

\* C15: when the call has returned, every matched file is either in the
\* source or in the destination folder and not in both, the moved count is
\* the number of matched files that left the source and are in the
\* destination, and moved + skipped + per-file errors is the number of
\* matched files.
C15_MoveConservesFiles ==
  mv.pc = "done" /\ mv.jpg_files # <<>> =>
    /\ \A name \in Matched : InSource(name) # InDestination(name)
    /\ mv.moved_count
         = Cardinality({name \in Matched :
                          ~InSource(name) /\ InDestination(name)})
    /\ mv.moved_count + Turns("skipped") + Len(mv.errors)
         = Cardinality(Matched)
====
